---------------------------- MODULE Spec2Model ----------------------------
(***************************************************************************)
(* bountycatch.py: a deduplicated set of domain names kept in a PostgreSQL *)
(* table (DataStore), a syntax validator (DomainValidator), and the        *)
(* pipeline that ingests, streams, exports and removes them                *)
(* (DomainManager and main).                                               *)
(*                                                                         *)
(* A Python str is a sequence of one-character strings, so that strip(),   *)
(* the substring test, the validator's regular expression and sorted()     *)
(* are computed character by character.                                    *)
(***************************************************************************)
EXTENDS Integers, Sequences, FiniteSets

(***************************************************************************)
(* Characters                                                              *)
(***************************************************************************)
Lower == {"a", "b", "c", "d", "e", "f", "g", "h", "i", "j", "k", "l", "m",
          "n", "o", "p", "q", "r", "s", "t", "u", "v", "w", "x", "y", "z"}

Upper == {"A", "B", "C", "D", "E", "F", "G", "H", "I", "J", "K", "L", "M",
          "N", "O", "P", "Q", "R", "S", "T", "U", "V", "W", "X", "Y", "Z"}

Digit == {"0", "1", "2", "3", "4", "5", "6", "7", "8", "9"}

\* [a-zA-Z0-9]
Alnum == Lower \cup Upper \cup Digit

\* [a-zA-Z0-9_*]
LabelEdge == Alnum \cup {"_", "*"}

\* [a-zA-Z0-9_*-]
LabelInner == LabelEdge \cup {"-"}

\* [a-zA-Z0-9-]
TldInner == Alnum \cup {"-"}

\* the characters str.strip() removes (those of the model's alphabet)
Whitespace == {" ", "\t", "\n", "\r", "\f"}

\* the printable ASCII characters, code points 32..126, in order (the double
\* quote and the backtick, which the model never uses, are spelled out)
Ascii == <<" ", "!", "DQUOTE", "#", "$", "%", "&", "'", "(", ")", "*", "+", ",",
           "-", ".", "/", "0", "1", "2", "3", "4", "5", "6", "7", "8", "9",
           ":", ";", "<", "=", ">", "?", "@", "A", "B", "C", "D", "E", "F",
           "G", "H", "I", "J", "K", "L", "M", "N", "O", "P", "Q", "R", "S",
           "T", "U", "V", "W", "X", "Y", "Z", "[", "\\", "]", "^", "_", "BACKTICK",
           "a", "b", "c", "d", "e", "f", "g", "h", "i", "j", "k", "l", "m",
           "n", "o", "p", "q", "r", "s", "t", "u", "v", "w", "x", "y", "z",
           "{", "|", "}", "~">>

\* the code point of a character: what sorted() compares
Ord(c) ==
    CASE c = "\t" -> 9
      [] c = "\n" -> 10
      [] c = "\f" -> 12
      [] c = "\r" -> 13
      [] OTHER -> 31 + (CHOOSE i \in 1..Len(Ascii) : Ascii[i] = c)

(***************************************************************************)
(* str operations                                                          *)
(***************************************************************************)
\* s.startswith(p)
StartsWith(s, p) ==
    /\ Len(p) <= Len(s)
    /\ SubSeq(s, 1, Len(p)) = p

\* s.endswith(p)
EndsWith(s, p) ==
    /\ Len(p) <= Len(s)
    /\ SubSeq(s, Len(s) - Len(p) + 1, Len(s)) = p

\* sub in s
Contains(s, sub) ==
    \E i \in 1..(Len(s) - Len(sub) + 1) : SubSeq(s, i, i + Len(sub) - 1) = sub

RECURSIVE LStrip(_)
LStrip(s) ==
    IF s # <<>> /\ Head(s) \in Whitespace THEN LStrip(Tail(s)) ELSE s

RECURSIVE RStrip(_)
RStrip(s) ==
    IF s # <<>> /\ s[Len(s)] \in Whitespace
    THEN RStrip(SubSeq(s, 1, Len(s) - 1))
    ELSE s

\* lstrip() in the place of strip()
Strip_LeftOnly(s) == LStrip(s)

\* s.strip()
Strip(s) == RStrip(LStrip(s))

\* s < t for Python strings: code point by code point, a proper prefix first
RECURSIVE StrLess(_, _)
StrLess(s, t) ==
    IF t = <<>> THEN FALSE
    ELSE IF s = <<>> THEN TRUE
    ELSE IF Head(s) # Head(t) THEN Ord(Head(s)) < Ord(Head(t))
    ELSE StrLess(Tail(s), Tail(t))

(***************************************************************************)
(* DomainValidator                                                         *)
(***************************************************************************)
MaxDomainLen == 253

\* the {0,61} of both label groups of DOMAIN_PATTERN
MaxInner == 61

\* [a-zA-Z0-9_*](?:[a-zA-Z0-9_*-]{0,61}[a-zA-Z0-9_*])?
IsLabel(seg) ==
    /\ Len(seg) >= 1
    /\ seg[1] \in LabelEdge
    /\ Len(seg) > 1 =>
          /\ seg[Len(seg)] \in LabelEdge
          /\ Len(seg) - 2 <= MaxInner
          /\ \A i \in 2..(Len(seg) - 1) : seg[i] \in LabelInner

\* [a-zA-Z0-9](?:[a-zA-Z0-9-]{0,61}[a-zA-Z0-9])?
IsTld(seg) ==
    /\ Len(seg) >= 1
    /\ seg[1] \in Alnum
    /\ Len(seg) > 1 =>
          /\ seg[Len(seg)] \in Alnum
          /\ Len(seg) - 2 <= MaxInner
          /\ \A i \in 2..(Len(seg) - 1) : seg[i] \in TldInner

\* (?:LABEL\.)+ TLD over s[p..e]: some "." at i closes a label that starts at
\* p, and what follows is the final label or again (?:LABEL\.)+ TLD
RECURSIVE MatchLabels(_, _, _)
MatchLabels(s, p, e) ==
    \E i \in p..e :
        /\ s[i] = "."
        /\ IsLabel(SubSeq(s, p, i - 1))
        /\ \/ IsTld(SubSeq(s, i + 1, e))
           \/ MatchLabels(s, i + 1, e)

\* the positions where "$" matches: the end of the string, and just before a
\* newline that is the last character
DollarEnds(s) ==
    {Len(s)} \cup (IF s # <<>> /\ s[Len(s)] = "\n" THEN {Len(s) - 1} ELSE {})

\* DOMAIN_PATTERN.match(s): ^(?:(?:\*\.)?(?:LABEL\.)+TLD)$
PatternMatch(s) ==
    \E e \in DollarEnds(s) :
        \E p \in {1} \cup (IF StartsWith(s, <<"*", ".">>) THEN {3} ELSE {}) :
            MatchLabels(s, p, e)

IsValidDomain(domain) ==
    IF domain = <<>> \/ Len(domain) > MaxDomainLen THEN FALSE
    ELSE IF StartsWith(domain, <<"*">>) /\ ~StartsWith(domain, <<"*", ".">>)
    THEN FALSE
    ELSE IF EndsWith(domain, <<"*">>) \/ domain = <<"*">> THEN FALSE
    ELSE IF \/ Contains(domain, <<".", "-">>)
            \/ Contains(domain, <<"-", ".">>)
            \/ StartsWith(domain, <<".">>)
            \/ EndsWith(domain, <<".">>)
    THEN FALSE
    ELSE PatternMatch(domain)


(***************************************************************************)
(* DataStore: the table "domains (domain TEXT PRIMARY KEY)" is the         *)
(* sequence of its rows in heap order, which is also the order in which a  *)
(* sequential scan returns them.  A store call either completes or raises  *)
(* psycopg2.Error (parameter fail), in which case it has rolled back.      *)
(***************************************************************************)
PAGE_SIZE == 10000

Rows(t) == {t[i] : i \in 1..Len(t)}

\* an INSERT without ON CONFLICT DO NOTHING into a table without the key
InsertRows_NoConflict(t, rows) == t \o rows

\* q without the elements that repeat an earlier one
FirstOccurrences(q) ==
    LET first  == {i \in 1..Len(q) : \A j \in 1..(i - 1) : q[j] # q[i]}
        Nth(k) == CHOOSE i \in first : Cardinality({j \in first : j < i}) = k - 1
    IN  [k \in 1..Cardinality(first) |-> q[Nth(k)]]

\* one INSERT INTO domains (domain) VALUES ... ON CONFLICT DO NOTHING: the
\* rows are appended in their order, but for those that the table holds or
\* that repeat an earlier row of the statement
InsertRows(t, rows) ==
    t \o FirstOccurrences(SelectSeq(rows, LAMBDA d : d \notin Rows(t)))

\* one DELETE FROM domains WHERE domain IN (VALUES ...)
DeleteRows(t, rows) == SelectSeq(t, LAMBDA d : d \notin Rows(rows))

\* the first page of execute_values(cur, sql, argslist, page_size=10000)
FirstPage(argslist) ==
    SubSeq(argslist, 1,
           IF Len(argslist) < PAGE_SIZE THEN Len(argslist) ELSE PAGE_SIZE)

RestPages(argslist) ==
    SubSeq(argslist, Len(FirstPage(argslist)) + 1, Len(argslist))

\* execute_values with the INSERT: one statement per page of the arguments;
\* cur.rowcount is left by the last statement executed and is the number of
\* rows that statement inserted
RECURSIVE ExecuteValuesInsert(_, _, _)
ExecuteValuesInsert(t, argslist, rowcount) ==
    IF argslist = <<>> THEN [table |-> t, rowcount |-> rowcount]
    ELSE LET t2 == InsertRows(t, FirstPage(argslist))
         IN  ExecuteValuesInsert(t2, RestPages(argslist), Len(t2) - Len(t))

\* execute_values with the DELETE: as above, the rows that statement deleted
RECURSIVE ExecuteValuesDelete(_, _, _)
ExecuteValuesDelete(t, argslist, rowcount) ==
    IF argslist = <<>> THEN [table |-> t, rowcount |-> rowcount]
    ELSE LET t2 == DeleteRows(t, FirstPage(argslist))
         IN  ExecuteValuesDelete(t2, RestPages(argslist), Len(t) - Len(t2))

\* DataStore.add_domains_batch(domains)
AddDomainsBatch(t, domains, fail) ==
    IF domains = <<>> THEN [table |-> t, ret |-> 0, raised |-> FALSE]
    ELSE IF fail THEN [table |-> t, ret |-> 0, raised |-> TRUE]
    ELSE LET r == ExecuteValuesInsert(t, domains, 0)
         IN  [table |-> r.table, ret |-> r.rowcount, raised |-> FALSE]

\* remove_domains_batch deleting only the first domain it is given
RemoveDomainsBatch_FirstOnly(t, domains, fail) ==
    IF domains = <<>> THEN [table |-> t, ret |-> 0, raised |-> FALSE]
    ELSE IF fail THEN [table |-> t, ret |-> 0, raised |-> TRUE]
    ELSE LET t2 == DeleteRows(t, <<domains[1]>>)
         IN  [table |-> t2, ret |-> Len(t) - Len(t2), raised |-> FALSE]

\* DataStore.remove_domains_batch(domains)
RemoveDomainsBatch(t, domains, fail) ==
    IF domains = <<>> THEN [table |-> t, ret |-> 0, raised |-> FALSE]
    ELSE IF fail THEN [table |-> t, ret |-> 0, raised |-> TRUE]
    ELSE LET r == ExecuteValuesDelete(t, domains, 0)
         IN  [table |-> r.table, ret |-> r.rowcount, raised |-> FALSE]

\* DataStore.remove_domain(domain)
RemoveDomainRow(t, domain, fail) ==
    IF fail THEN [table |-> t, ret |-> 0, raised |-> TRUE]
    ELSE [table  |-> DeleteRows(t, <<domain>>),
          ret    |-> IF domain \in Rows(t) THEN 1 ELSE 0,
          raised |-> FALSE]

\* DataStore.get_domains()
StoreGetDomains(t, fail) ==
    IF fail THEN [set |-> {}, raised |-> TRUE]
    ELSE [set |-> Rows(t), raised |-> FALSE]

\* a store failure of a read: none, or after failAt rows have been fetched
NoFail == -1

\* DataStore.iter_domains(): the rows in scan order; with a failure, the rows
\* yielded before it
StoreIterDomains(t, failAt) ==
    IF failAt = NoFail \/ failAt > Len(t) THEN [out |-> t, raised |-> FALSE]
    ELSE [out |-> SubSeq(t, 1, failAt), raised |-> TRUE]

\* delete_all_domains looking for data after the TRUNCATE
DeleteAllDomains_ExistsAfter(t, fail) ==
    IF fail THEN [table |-> t, ret |-> 0, raised |-> TRUE]
    ELSE [table |-> <<>>, ret |-> 0, raised |-> FALSE]

\* DataStore.delete_all_domains()
DeleteAllDomains(t, fail) ==
    IF fail THEN [table |-> t, ret |-> 0, raised |-> TRUE]
    ELSE [table |-> <<>>, ret |-> IF t # <<>> THEN 1 ELSE 0, raised |-> FALSE]

\* DataStore.count_domains(): SELECT COUNT(*) FROM domains
CountDomains(t) == Len(t)


(***************************************************************************)
(* Filters.  --match is a substring; the empty string is falsy and filters *)
(* nothing.  --regex is modelled for the patterns ^?literal$? (an optional *)
(* anchor at either end of an escaped literal), searched with re.search.   *)
(***************************************************************************)
NoMatch == <<>>

NoRegex == [set |-> FALSE, anchS |-> FALSE, lit |-> <<>>, anchE |-> FALSE]

\* regex.search(d)
RegexSearch(r, d) ==
    \E i \in (IF r.anchS THEN {1} ELSE 1..(Len(d) + 1)) :
        /\ i + Len(r.lit) - 1 <= Len(d)
        /\ SubSeq(d, i, i + Len(r.lit) - 1) = r.lit
        /\ r.anchE => (i + Len(r.lit) - 1) \in DollarEnds(d)

\* a test that leaves the regex out
Keeps_MatchOnly(match, regex, d) == match # NoMatch => Contains(d, match)

\* the test both branches of DomainManager.iter_domains apply to a domain
Keeps(match, regex, d) ==
    /\ match # NoMatch => Contains(d, match)
    /\ regex.set => RegexSearch(regex, d)

\* the set in descending order
RECURSIVE Sorted_Descending(_)
Sorted_Descending(S) ==
    IF S = {} THEN <<>>
    ELSE LET m == CHOOSE x \in S : \A y \in S : ~StrLess(x, y)
         IN  <<m>> \o Sorted_Descending(S \ {m})

\* sorted(S) for a set of str
RECURSIVE Sorted(_)
Sorted(S) ==
    IF S = {} THEN <<>>
    ELSE LET m == CHOOSE x \in S : \A y \in S : ~StrLess(y, x)
         IN  <<m>> \o Sorted(S \ {m})

\* sorted(q) for a list of str
RECURSIVE SortedList(_)
SortedList(q) ==
    IF q = <<>> THEN <<>>
    ELSE LET rest == SortedList(Tail(q))
             lo   == SelectSeq(rest, LAMBDA d : ~StrLess(Head(q), d))
             hi   == SelectSeq(rest, LAMBDA d : StrLess(Head(q), d))
         IN  lo \o <<Head(q)>> \o hi

(***************************************************************************)
(* DomainManager                                                           *)
(***************************************************************************)
\* DomainManager.get_domains(): a store failure is logged and an empty set
\* returned
GetDomains(t, fail) ==
    LET r == StoreGetDomains(t, fail)
    IN  IF r.raised THEN {} ELSE r.set

\* DomainManager.iter_domains(match, regex, sort): the sequence it yields and
\* whether it ends by raising psycopg2.Error
IterDomains(t, match, regex, sort, failAt) ==
    IF sort
    THEN LET domains == GetDomains(t, failAt # NoFail)
         IN  [out    |-> Sorted({d \in domains : Keeps(match, regex, d)}),
              raised |-> FALSE]
    ELSE LET r == StoreIterDomains(t, failAt)
         IN  [out    |-> SelectSeq(r.out, LAMBDA d : Keeps(match, regex, d)),
              raised |-> r.raised]

\* DomainManager._process_domain(domain)
ProcessDomain(domain) == Strip(domain)

\* a flush that clears the batch only when add_domains_batch has returned
Flush_KeepsFailedBatch(st, b, fails) ==
    LET k == st.flushes + 1
        r == AddDomainsBatch(st.table, b, k \in fails)
    IN  [st EXCEPT !.table       = r.table,
                   !.new_domains = IF r.raised THEN @ ELSE @ + r.ret,
                   !.batch       = IF r.raised THEN b ELSE <<>>,
                   !.flushes     = k,
                   !.failed      = IF r.raised THEN @ \cup {k} ELSE @]

\* the flush of add_domains_from_stream: add_domains_batch(batch) inside
\* try/except psycopg2.Error, then batch.clear()
Flush(st, b, fails) ==
    LET k == st.flushes + 1
        r == AddDomainsBatch(st.table, b, k \in fails)
    IN  [st EXCEPT !.table       = r.table,
                   !.new_domains = IF r.raised THEN @ ELSE @ + r.ret,
                   !.batch       = <<>>,
                   !.flushes     = k,
                   !.failed      = IF r.raised THEN @ \cup {k} ELSE @]

\* a loop body that never asks the validator
IngestLine_NoValidation(st, line, validate, batch_size, fails) ==
    LET domain    == Strip(line)
        processed == ProcessDomain(domain)
        st1       == [st EXCEPT !.line_num = @ + 1]
    IN  IF domain = <<>> THEN st1
        ELSE LET st2 == [st1 EXCEPT !.batch = Append(@, processed),
                                    !.total_domains = @ + 1]
             IN  IF Len(st2.batch) >= batch_size
                 THEN Flush(st2, st2.batch, fails)
                 ELSE st2

\* one iteration of the loop over the stream's lines
IngestLine(st, line, validate, batch_size, fails) ==
    LET domain    == Strip(line)
        processed == ProcessDomain(domain)
        st1       == [st EXCEPT !.line_num = @ + 1]
    IN  IF domain = <<>> THEN st1
        ELSE IF validate /\ ~IsValidDomain(processed)
        THEN [st1 EXCEPT !.invalid_domains = @ + 1]
        ELSE LET st2 == [st1 EXCEPT !.batch = Append(@, processed),
                                    !.total_domains = @ + 1]
             IN  IF Len(st2.batch) >= batch_size
                 THEN Flush(st2, st2.batch, fails)
                 ELSE st2

RECURSIVE IngestLoop(_, _, _, _, _)
IngestLoop(st, stream, validate, batch_size, fails) ==
    IF stream = <<>> THEN st
    ELSE IngestLoop(IngestLine(st, Head(stream), validate, batch_size, fails),
                    Tail(stream), validate, batch_size, fails)

\* add_domains_from_stream without the flush of the remaining batch
AddDomainsFromStream_NoFinalFlush(t, stream, validate, batch_size, fails) ==
    IngestLoop([table |-> t, batch |-> <<>>, total_domains |-> 0,
                new_domains |-> 0, invalid_domains |-> 0, line_num |-> 0,
                flushes |-> 0, failed |-> {}],
               stream, validate, batch_size, fails)

\* DomainManager.add_domains_from_stream(stream, validate, batch_size); the
\* flushes whose ordinal is in fails raise psycopg2.Error.  The result holds
\* the store and the function's locals when it returns.
AddDomainsFromStream(t, stream, validate, batch_size, fails) ==
    LET st0 == [table |-> t, batch |-> <<>>, total_domains |-> 0,
                new_domains |-> 0, invalid_domains |-> 0, line_num |-> 0,
                flushes |-> 0, failed |-> {}]
        st  == IngestLoop(st0, stream, validate, batch_size, fails)
    IN  IF st.batch # <<>> THEN Flush(st, st.batch, fails) ELSE st

\* DomainManager.remove_domain(domain)
RemoveDomain(t, domain, fail) ==
    LET r == RemoveDomainRow(t, domain, fail)
    IN  [table |-> r.table, ret |-> ~r.raised /\ r.ret > 0]

\* one iteration of the loop over the file's lines in
\* remove_domains_from_file; the remove_domain calls whose ordinal is in
\* fails raise psycopg2.Error, which is logged
RemoveLine(st, line, fails) ==
    LET domain == Strip(line)
        st1    == [st EXCEPT !.line_num = @ + 1]
    IN  IF domain = <<>> THEN st1
        ELSE LET k == st.calls + 1
                 r == RemoveDomainRow(st.table, domain, k \in fails)
             IN  IF r.raised THEN [st1 EXCEPT !.calls = k]
                 ELSE [st1 EXCEPT
                          !.calls = k,
                          !.table = r.table,
                          !.removed_domains = IF r.ret > 0 THEN @ + 1 ELSE @,
                          !.not_found_domains = IF r.ret > 0 THEN @ ELSE @ + 1,
                          !.total_domains = @ + 1]

RECURSIVE RemoveLoop(_, _, _)
RemoveLoop(st, file, fails) ==
    IF file = <<>> THEN st
    ELSE RemoveLoop(RemoveLine(st, Head(file), fails), Tail(file), fails)

\* DomainManager.remove_domains_from_file(filename): nothing is returned,
\* whether the file exists or not and whatever was removed
RemoveDomainsFromFile(t, exists, file, fails) ==
    LET st0 == [table |-> t, total_domains |-> 0, removed_domains |-> 0,
                not_found_domains |-> 0, line_num |-> 0, calls |-> 0]
    IN  IF ~exists THEN st0 ELSE RemoveLoop(st0, file, fails)

\* DomainManager.delete_all()
DeleteAll(t, fail) ==
    LET r == DeleteAllDomains(t, fail)
    IN  [table |-> r.table, ret |-> ~r.raised /\ r.ret # 0]


(***************************************************************************)
(* The inputs the commands are run on                                      *)
(***************************************************************************)
\* the longest input stream of an add
MaxLines == 3

\* the largest batch_size of an add
MaxBatch == 2

L_ab      == <<"a", ".", "b", "\n">>
L_ab_pad  == <<" ", "a", ".", "b", " ", "\n">>
L_blank   == <<" ", "\n">>
L_star_ab == <<"*", "a", ".", "b", "\n">>
L_Ab      == <<"A", ".", "b">>

Lines == {L_ab, L_ab_pad, L_blank, L_star_ab, L_Ab}

Streams == UNION {[1..n -> Lines] : n \in 0..MaxLines}

\* the longest file of a remove -f
MaxFileLines == 2

Files == UNION {[1..n -> Lines] : n \in 0..MaxFileLines}

\* the domains a remove -d names
Domains == {Strip(l) : l \in Lines \ {L_blank}}

Matches == {NoMatch, <<"a">>, <<"A", ".">>, <<"z">>}

Regexes == {NoRegex,
            [set |-> TRUE, anchS |-> TRUE,  lit |-> <<"a">>,      anchE |-> FALSE],
            [set |-> TRUE, anchS |-> FALSE, lit |-> <<".", "b">>, anchE |-> TRUE]}

\* --match and --regex are mutually exclusive
Filters == {f \in [match : Matches, regex : Regexes] :
                f.match = NoMatch \/ ~f.regex.set}

NoFilter == [match |-> NoMatch, regex |-> NoRegex]

Nil == [nil |-> TRUE]

(***************************************************************************)
(* State: the table, which outlives the processes, and one invocation of   *)
(* the program at a time: its command line (cmd, inp), the store content   *)
(* it started from (before), and what it has produced when it ends (res).  *)
(* Where a command is followed step by step: the connections checked out   *)
(* of its pool (used), whether the pool has been closed (closed), the scan *)
(* generator (gen), the uncommitted work of the connection in use (txn),   *)
(* and a record of what has happened so far (hist): the calls of           *)
(* remove_domains_batch, the domains other processes added, those of them  *)
(* added between the scan and remove_domains_batch (window), the batches   *)
(* committed and the transactions rolled back, and the store as the        *)
(* committed batches and the other processes alone would have made it      *)
(* (shadow).                                                               *)
(***************************************************************************)
VARIABLES table, pc, cmd, inp, res, before, unvalidated, candidate, verdict,
          used, closed, gen, txn, hist

vars == <<table, pc, cmd, inp, res, before, unvalidated, candidate, verdict,
          used, closed, gen, txn, hist>>

\* what only the step-by-step commands change
stepVars == <<used, closed, gen, txn, hist>>

\* no generator: iter_domains has not been called
NoGen == [state |-> "none", snap |-> <<>>, pos |-> 0, raised |-> FALSE]

NoHist == [calls |-> 0, added |-> {}, window |-> {}, shadow |-> <<>>,
           committed |-> <<>>, rolledBack |-> 0]

Init ==
    /\ table = <<>>
    /\ pc = "idle"
    /\ cmd = "none"
    /\ inp = Nil
    /\ res = Nil
    /\ before = <<>>
    /\ unvalidated = FALSE
    /\ candidate = <<>>
    /\ verdict = "none"
    /\ used = {}
    /\ closed = FALSE
    /\ gen = NoGen
    /\ txn = Nil
    /\ hist = NoHist

Start(c, i) ==
    /\ pc = "idle"
    /\ pc' = "done"
    /\ cmd' = c
    /\ inp' = i
    /\ before' = table
    /\ UNCHANGED <<candidate, verdict>>
    /\ UNCHANGED stepVars

\* main, command add
CmdAdd(stream, validate, batch_size, fails) ==
    \E r \in {AddDomainsFromStream(table, stream, validate, batch_size, fails)} :
        /\ Start("add", [stream |-> stream, validate |-> validate,
                         batch_size |-> batch_size])
        /\ table' = r.table
        /\ unvalidated' = (unvalidated \/ ~validate)
        /\ res' = [exit            |-> 0,
                   batch           |-> r.batch,
                   total_domains   |-> r.total_domains,
                   new_domains     |-> r.new_domains,
                   invalid_domains |-> r.invalid_domains,
                   line_num        |-> r.line_num,
                   flushes         |-> r.flushes,
                   failed          |-> r.failed]

\* main, command export --format json: the file is written only after the
\* whole stream has been collected
ExportJson(t, flt, sort, failAt) ==
    LET r == IterDomains(t, flt.match, flt.regex, sort, failAt)
    IN  IF r.raised
        THEN [exit |-> 1, written |-> FALSE, domain_count |-> 0, domains |-> <<>>]
        ELSE [exit         |-> 0,
              written      |-> TRUE,
              domain_count |-> Len(r.out),
              domains      |-> IF ~sort THEN r.out ELSE SortedList(r.out)]

\* main, command export --format text: one line per domain yielded
ExportText(t, flt, sort, failAt) ==
    LET r == IterDomains(t, flt.match, flt.regex, sort, failAt)
    IN  [exit         |-> IF r.raised THEN 1 ELSE 0,
         written      |-> TRUE,
         domain_count |-> Len(r.out),
         domains      |-> r.out]

CmdExport(format, flt, sort, failAt) ==
    /\ Start("export", [format |-> format, flt |-> flt, sort |-> sort,
                        failAt |-> failAt])
    /\ res' = IF format = "json" THEN ExportJson(table, flt, sort, failAt)
                                 ELSE ExportText(table, flt, sort, failAt)
    /\ UNCHANGED <<table, unvalidated>>

\* main, command print: an error of the store leaves main as an exception
PrintDomains(t, flt, sort, failAt) ==
    LET r == IterDomains(t, flt.match, flt.regex, sort, failAt)
    IN  [exit      |-> IF r.raised THEN 1 ELSE 0,
         out       |-> r.out,
         found_any |-> r.out # <<>>]

CmdPrint(flt, sort, failAt) ==
    /\ Start("print", [flt |-> flt, sort |-> sort, failAt |-> failAt])
    /\ res' = PrintDomains(table, flt, sort, failAt)
    /\ UNCHANGED <<table, unvalidated>>

\* main, command count
Count(t, flt, failAt) ==
    LET r == IterDomains(t, flt.match, flt.regex, FALSE, failAt)
    IN  IF r.raised THEN [exit |-> 1, printed |-> FALSE, total |-> Len(r.out)]
        ELSE [exit |-> 0, printed |-> TRUE, total |-> Len(r.out)]

CmdCount(flt, failAt) ==
    /\ Start("count", [flt |-> flt, sort |-> FALSE, failAt |-> failAt])
    /\ res' = Count(table, flt, failAt)
    /\ UNCHANGED <<table, unvalidated>>

\* main, command remove -d
CmdRemoveDomain(domain, fail) ==
    LET r == RemoveDomain(table, domain, fail)
    IN  /\ Start("remove-domain", [domain |-> domain, fail |-> fail])
        /\ table' = r.table
        /\ res' = [exit |-> IF r.ret THEN 0 ELSE 1, removed |-> r.ret]
        /\ UNCHANGED unvalidated

\* main, command remove -f: whatever remove_domains_from_file did, main goes
\* on to return 0
CmdRemoveFile(exists, file, fails) ==
    \E r \in {RemoveDomainsFromFile(table, exists, file, fails)} :
        /\ Start("remove-file", [exists |-> exists, file |-> file,
                                 fails |-> fails])
        /\ table' = r.table
        /\ res' = [exit              |-> 0,
                   total_domains     |-> r.total_domains,
                   removed_domains   |-> r.removed_domains,
                   not_found_domains |-> r.not_found_domains]
        /\ UNCHANGED unvalidated

\* main, command remove --match / --regex: collect the candidates, then one
\* remove_domains_batch
RemoveByFilter(t, flt, failAt, failRemove) ==
    IF flt.match = NoMatch /\ ~flt.regex.set
    THEN [table |-> t, exit |-> 1, to_remove |-> <<>>, removed |-> 0]
    ELSE LET scan == IterDomains(t, flt.match, flt.regex, FALSE, failAt)
         IN  IF scan.raised
             THEN [table |-> t, exit |-> 1, to_remove |-> <<>>, removed |-> 0]
             ELSE LET r == RemoveDomainsBatch(t, scan.out, failRemove)
                  IN  IF r.raised
                      THEN [table |-> t, exit |-> 1, to_remove |-> scan.out,
                            removed |-> 0]
                      ELSE [table |-> r.table, exit |-> 0,
                            to_remove |-> scan.out, removed |-> r.ret]

CmdRemoveFilter(flt, failAt, failRemove) ==
    LET r == RemoveByFilter(table, flt, failAt, failRemove)
    IN  /\ Start("remove-filter", [flt |-> flt, failAt |-> failAt,
                                   failRemove |-> failRemove])
        /\ table' = r.table
        /\ res' = [exit |-> r.exit, to_remove |-> r.to_remove,
                   removed |-> r.removed]
        /\ UNCHANGED unvalidated

\* main, command delete-all: confirm is --confirm or the answer y / yes
CmdDeleteAll(confirm, fail) ==
    LET r == DeleteAll(table, fail)
    IN  /\ Start("delete-all", [confirm |-> confirm, fail |-> fail])
        /\ table' = IF confirm THEN r.table ELSE table
        /\ res' = IF ~confirm THEN [exit |-> 0, called |-> FALSE, ret |-> FALSE]
                  ELSE [exit |-> IF r.ret THEN 0 ELSE 1, called |-> TRUE,
                        ret |-> r.ret]
        /\ UNCHANGED unvalidated

\* the process ends, and its pool and generator with it; the next invocation
\* starts from the table alone
Exit ==
    /\ pc = "done"
    /\ pc' = "idle"
    /\ cmd' = "none"
    /\ inp' = Nil
    /\ res' = Nil
    /\ before' = <<>>
    /\ used' = {}
    /\ closed' = FALSE
    /\ gen' = NoGen
    /\ txn' = Nil
    /\ hist' = NoHist
    /\ UNCHANGED <<table, unvalidated, candidate, verdict>>

\* where a read of the store can fail: nowhere, or after some of its rows
FailPoints(sort) ==
    IF sort THEN {NoFail, 0} ELSE {NoFail} \cup 0..Len(table)

\* a command is read only by a process that has not run one yet
Next ==
    \/ /\ pc = "idle"
       /\ \E stream \in Streams, validate \in BOOLEAN, batch_size \in 1..MaxBatch :
              \E fails \in SUBSET (1..Len(stream)) :
                  CmdAdd(stream, validate, batch_size, fails)
    \/ /\ pc = "idle"
       /\ \E format \in {"json", "text"}, flt \in Filters, sort \in BOOLEAN :
              \E failAt \in FailPoints(sort) : CmdExport(format, flt, sort, failAt)
    \/ /\ pc = "idle"
       /\ \E flt \in Filters, sort \in BOOLEAN :
              \E failAt \in FailPoints(sort) : CmdPrint(flt, sort, failAt)
    \/ /\ pc = "idle"
       /\ \E flt \in Filters :
              \E failAt \in FailPoints(FALSE) : CmdCount(flt, failAt)
    \/ /\ pc = "idle"
       /\ \E domain \in Domains, fail \in BOOLEAN : CmdRemoveDomain(domain, fail)
    \/ /\ pc = "idle"
       /\ \E exists \in BOOLEAN, file \in Files :
              \E fails \in SUBSET (1..Len(file)) :
                  /\ ~exists => (file = <<>>)
                  /\ CmdRemoveFile(exists, file, fails)
    \/ /\ pc = "idle"
       /\ \E flt \in Filters, failRemove \in BOOLEAN :
              \E failAt \in FailPoints(FALSE) :
                  CmdRemoveFilter(flt, failAt, failRemove)
    \/ /\ pc = "idle"
       /\ \E confirm \in BOOLEAN, fail \in BOOLEAN : CmdDeleteAll(confirm, fail)
    \/ Exit

Spec == Init /\ [][Next]_vars


(***************************************************************************)
(* The commands step by step: every pool.getconn and pool.putconn, every   *)
(* row the scan generator yields, every statement and commit of a batch,   *)
(* with the inserts of other processes in between.                         *)
(***************************************************************************)
\* the longest input stream of an add that is followed step by step
MaxStepLines == 2

\* how many domains other processes add while one command runs
MaxOther == 1

StepStreams == UNION {[1..n -> Lines] : n \in 0..MaxStepLines}

\* pool.getconn() for the operation named holder
GetConn(u, holder) == u \cup {holder}

\* pool.putconn(conn): PoolError, and nothing returned, once the pool is closed
PutConn(u, holder, poolClosed) == IF poolClosed THEN u ELSE u \ {holder}

\* conn.commit(): the statements of the transaction take effect
Commit(t, x) ==
    IF x.kind = "insert" THEN ExecuteValuesInsert(t, x.rows, 0).table
    ELSE ExecuteValuesDelete(t, x.rows, 0).table

\* a rollback that leaves the statements' work in the table
Rollback_KeepsWork(t, x) == Commit(t, x)

\* conn.rollback(), also the one putconn does for a connection returned inside
\* a transaction: the statements of the transaction are undone
Rollback(t, x) == t

\* a command begins: argparse, then DataStore() with a pool of its own
Begin(c, i, locals, first) ==
    /\ pc = "idle"
    /\ pc' = first
    /\ cmd' = c
    /\ inp' = i
    /\ res' = locals
    /\ before' = table
    /\ used' = {}
    /\ closed' = FALSE
    /\ gen' = NoGen
    /\ txn' = Nil
    /\ hist' = [NoHist EXCEPT !.shadow = table]
    /\ UNCHANGED <<table, candidate, verdict>>

\* main, command print without --sort
StepPrint(flt) ==
    /\ Begin("print", [flt |-> flt],
             [exit |-> 0, out |-> <<>>, found_any |-> FALSE], "scan")
    /\ UNCHANGED unvalidated

\* main, command export --format text without --sort
StepExport(flt) ==
    /\ Begin("export", [flt |-> flt],
             [exit |-> 0, out |-> <<>>, found_any |-> FALSE], "scan")
    /\ UNCHANGED unvalidated

\* main, command remove --match / --regex
StepRemoveFilter(flt) ==
    /\ flt # NoFilter
    /\ Begin("remove-filter", [flt |-> flt],
             [exit |-> 0, out |-> <<>>, found_any |-> FALSE, removed |-> 0],
             "scan")
    /\ UNCHANGED unvalidated

\* main, command add
StepAdd(stream, validate, batch_size) ==
    /\ Begin("add", [stream |-> stream, validate |-> validate,
                     batch_size |-> batch_size],
             [exit |-> 0, batch |-> <<>>, total_domains |-> 0,
              new_domains |-> 0, invalid_domains |-> 0, line_num |-> 0],
             "read")
    /\ unvalidated' = (unvalidated \/ ~validate)

\* DataStore.iter_domains up to its loop: the connection is checked out and
\* the cursor opened on the table as it is now
ScanOpen ==
    /\ pc = "scan"
    /\ gen.state = "none"
    /\ used' = GetConn(used, "iter_domains")
    /\ gen' = [state |-> "open", snap |-> table, pos |-> 0, raised |-> FALSE]
    /\ UNCHANGED <<table, pc, cmd, inp, res, before, unvalidated, candidate,
                   verdict, closed, txn, hist>>

\* the scan at once deleting the row it has just yielded
ScanYield_RemovesAtOnce(raises) ==
    /\ pc = "scan"
    /\ gen.state = "open"
    /\ gen.pos < Len(gen.snap)
    /\ ~raises
    /\ LET domain == gen.snap[gen.pos + 1]
           kept   == Keeps(inp.flt.match, inp.flt.regex, domain)
       IN  /\ gen' = [gen EXCEPT !.pos = @ + 1]
           /\ res' = [res EXCEPT !.out = IF kept THEN Append(@, domain) ELSE @,
                                 !.found_any = @ \/ kept]
           /\ table' = IF kept /\ cmd = "remove-filter"
                       THEN DeleteRows(table, <<domain>>) ELSE table
           /\ hist' = [hist EXCEPT !.calls = IF kept /\ cmd = "remove-filter"
                                             THEN @ + 1 ELSE @]
    /\ UNCHANGED <<pc, cmd, inp, before, unvalidated, candidate, verdict,
                   used, closed, txn>>

\* one row of the scan: DataStore.iter_domains yields it, DomainManager's
\* iter_domains passes it on if the filter keeps it, and the consumer takes
\* it or raises (raises): BrokenPipeError in print(domain), where the for
\* loop alone holds the generator, which is closed as the loop is left;
\* IOError in f.write, where main's local domains_iter still holds it
ScanYield(raises) ==
    /\ pc = "scan"
    /\ gen.state = "open"
    /\ gen.pos < Len(gen.snap)
    /\ LET domain == gen.snap[gen.pos + 1]
           kept   == Keeps(inp.flt.match, inp.flt.regex, domain)
       IN  /\ raises => (kept /\ cmd \in {"print", "export"})
           /\ IF ~raises
              THEN /\ gen' = [gen EXCEPT !.pos = @ + 1]
                   /\ res' = [res EXCEPT !.out = IF kept THEN Append(@, domain)
                                                 ELSE @,
                                         !.found_any = @ \/ kept]
                   /\ UNCHANGED <<pc, used>>
              ELSE IF cmd = "print"
              THEN /\ gen' = [gen EXCEPT !.pos = @ + 1, !.state = "closed"]
                   /\ used' = PutConn(used, "iter_domains", closed)
                   /\ res' = [res EXCEPT !.found_any = TRUE]
                   /\ pc' = "close"
              ELSE /\ gen' = [gen EXCEPT !.pos = @ + 1]
                   /\ res' = [res EXCEPT !.exit = 1]
                   /\ pc' = "close"
                   /\ UNCHANGED used
    /\ UNCHANGED <<table, cmd, inp, before, unvalidated, candidate, verdict,
                   closed, txn, hist>>

\* the cursor has no more rows: the generator returns through its finally;
\* remove goes on to remove_domains_batch if it has collected a candidate
ScanExhaust ==
    /\ pc = "scan"
    /\ gen.state = "open"
    /\ gen.pos = Len(gen.snap)
    /\ gen' = [gen EXCEPT !.state = "closed"]
    /\ used' = PutConn(used, "iter_domains", closed)
    /\ pc' = IF cmd = "remove-filter" /\ res.out # <<>> THEN "remove"
             ELSE "close"
    /\ UNCHANGED <<table, cmd, inp, res, before, unvalidated, candidate,
                   verdict, closed, txn, hist>>

\* psycopg2.Error while the cursor is read: logged and raised again through
\* the finally; no command's handler lets it end with exit code 0
ScanFail ==
    /\ pc = "scan"
    /\ gen.state = "open"
    /\ gen' = [gen EXCEPT !.state = "closed", !.raised = TRUE]
    /\ used' = PutConn(used, "iter_domains", closed)
    /\ res' = [res EXCEPT !.exit = 1]
    /\ pc' = "close"
    /\ UNCHANGED <<table, cmd, inp, before, unvalidated, candidate, verdict,
                   closed, txn, hist>>

\* remove_domains_batch at once on whatever the filter keeps in the table now
RemoveExecute_Rescan(fail) ==
    /\ pc = "remove"
    /\ ~fail
    /\ hist' = [hist EXCEPT !.calls = @ + 1]
    /\ used' = GetConn(used, "remove_domains_batch")
    /\ txn' = [kind |-> "delete",
               rows |-> SelectSeq(table,
                            LAMBDA d : Keeps(inp.flt.match, inp.flt.regex, d)),
               rowcount |-> 0]
    /\ pc' = "commit"
    /\ UNCHANGED <<table, cmd, inp, res, before, unvalidated, candidate,
                   verdict, closed, gen>>

\* main calls datastore.remove_domains_batch(to_remove): the connection is
\* checked out and the DELETE executed, or it fails (fail), is rolled back,
\* and main returns 1
RemoveExecute(fail) ==
    /\ pc = "remove"
    /\ hist' = [hist EXCEPT !.calls = @ + 1]
    /\ IF fail
       THEN /\ res' = [res EXCEPT !.exit = 1]
            /\ pc' = "close"
            /\ UNCHANGED <<used, txn>>
       ELSE /\ used' = GetConn(used, "remove_domains_batch")
            /\ txn' = [kind     |-> "delete",
                       rows     |-> res.out,
                       rowcount |-> ExecuteValuesDelete(table, res.out, 0).rowcount]
            /\ pc' = "commit"
            /\ UNCHANGED res
    /\ UNCHANGED <<table, cmd, inp, before, unvalidated, candidate, verdict,
                   closed, gen>>

\* one line of the stream: the loop body of add_domains_from_stream up to
\* its test of the batch's length
ReadLine ==
    /\ pc = "read"
    /\ res.line_num < Len(inp.stream)
    /\ LET st == IngestLine(res, inp.stream[res.line_num + 1], inp.validate,
                            Len(res.batch) + 2, {})
       IN  /\ res' = st
           /\ pc' = IF Len(st.batch) >= inp.batch_size THEN "flush" ELSE "read"
    /\ UNCHANGED <<table, cmd, inp, before, unvalidated, candidate, verdict,
                   used, closed, gen, txn, hist>>

\* the stream has ended: the remaining batch is flushed, if there is one
EndOfStream ==
    /\ pc = "read"
    /\ res.line_num = Len(inp.stream)
    /\ pc' = IF res.batch # <<>> THEN "flush" ELSE "close"
    /\ UNCHANGED <<table, cmd, inp, res, before, unvalidated, candidate,
                   verdict, used, closed, gen, txn, hist>>

\* add_domains_from_stream calls datastore.add_domains_batch(batch): the
\* connection is checked out and the INSERT executed, or it fails (fail), is
\* rolled back, and the loop clears the batch and goes on
FlushExecute(fail) ==
    /\ pc = "flush"
    /\ IF fail
       THEN /\ res' = [res EXCEPT !.batch = <<>>]
            /\ pc' = "read"
            /\ UNCHANGED <<used, txn>>
       ELSE /\ used' = GetConn(used, "add_domains_batch")
            /\ txn' = [kind     |-> "insert",
                       rows     |-> res.batch,
                       rowcount |-> ExecuteValuesInsert(table, res.batch, 0).rowcount]
            /\ pc' = "commit"
            /\ UNCHANGED res
    /\ UNCHANGED <<table, cmd, inp, before, unvalidated, candidate, verdict,
                   closed, gen, hist>>

\* conn.commit() of add_domains_batch or remove_domains_batch, then the
\* finally; a commit that fails (fail) is rolled back
BatchCommit(fail) ==
    /\ pc = "commit"
    /\ table' = IF fail THEN Rollback(table, txn) ELSE Commit(table, txn)
    /\ used' = PutConn(used, IF cmd = "add" THEN "add_domains_batch"
                             ELSE "remove_domains_batch", closed)
    /\ txn' = Nil
    /\ hist' = IF fail THEN [hist EXCEPT !.rolledBack = @ + 1]
               ELSE [hist EXCEPT !.committed = Append(@, txn.rows),
                                 !.shadow = IF txn.kind = "insert"
                                            THEN InsertRows(@, txn.rows)
                                            ELSE DeleteRows(@, txn.rows)]
    /\ IF cmd = "add"
       THEN /\ res' = [res EXCEPT !.batch = <<>>,
                                  !.new_domains = IF fail THEN @
                                                  ELSE @ + txn.rowcount]
            /\ pc' = "read"
       ELSE /\ res' = IF fail THEN [res EXCEPT !.exit = 1]
                      ELSE [res EXCEPT !.removed = txn.rowcount]
            /\ pc' = "close"
    /\ UNCHANGED <<cmd, inp, before, unvalidated, candidate, verdict, closed,
                   gen>>

\* KeyboardInterrupt, in the store adapter's code or, once the generator has
\* yielded, in export's loop (inConsumer): every finally on the way out
\* runs, and a connection returned inside a transaction is rolled back by
\* putconn.  A generator that only the for loop or list() holds is closed on
\* the way; the one export's local domains_iter holds stays suspended.
Interrupt(inConsumer) ==
    /\ pc \in {"scan", "remove", "read", "flush", "commit"}
    /\ inConsumer => (gen.state = "open" /\ cmd = "export" /\ res.found_any)
    /\ table' = IF txn # Nil THEN Rollback(table, txn) ELSE table
    /\ txn' = Nil
    /\ hist' = IF txn # Nil THEN [hist EXCEPT !.rolledBack = @ + 1] ELSE hist
    /\ IF inConsumer
       THEN UNCHANGED <<gen, used>>
       ELSE /\ gen' = IF gen.state = "open" THEN [gen EXCEPT !.state = "closed"]
                      ELSE gen
            /\ used' = {}
    /\ res' = [res EXCEPT !.exit = 1]
    /\ pc' = "close"
    /\ UNCHANGED <<cmd, inp, before, unvalidated, candidate, verdict, closed>>

\* main's finally: datastore.close() closes the pool
Close ==
    /\ pc = "close"
    /\ closed' = TRUE
    /\ pc' = "done"
    /\ UNCHANGED <<table, cmd, inp, res, before, unvalidated, candidate,
                   verdict, used, gen, txn, hist>>

\* the generator main still holds is finalized as the interpreter exits: its
\* finally calls putconn on the closed pool
GenFinalize ==
    /\ pc = "done"
    /\ gen.state = "open"
    /\ gen' = [gen EXCEPT !.state = "closed"]
    /\ used' = PutConn(used, "iter_domains", closed)
    /\ UNCHANGED <<table, pc, cmd, inp, res, before, unvalidated, candidate,
                   verdict, closed, txn, hist>>

\* another process adds a domain the table does not hold; it waits while
\* this command's open transaction has a statement on that domain
OtherAdd(d) ==
    /\ pc \notin {"idle", "done"}
    /\ Cardinality(hist.added) < MaxOther
    /\ d \notin Rows(table)
    /\ txn # Nil => d \notin Rows(txn.rows)
    /\ table' = AddDomainsBatch(table, <<d>>, FALSE).table
    /\ hist' = [hist EXCEPT !.added = @ \cup {d},
                            !.window = IF pc = "remove" THEN @ \cup {d} ELSE @,
                            !.shadow = AddDomainsBatch(@, <<d>>, FALSE).table]
    /\ UNCHANGED <<pc, cmd, inp, res, before, unvalidated, candidate, verdict,
                   used, closed, gen, txn>>

NextSteps ==
    \/ /\ pc = "idle"
       /\ \E flt \in Filters : StepPrint(flt)
    \/ /\ pc = "idle"
       /\ \E flt \in Filters : StepExport(flt)
    \/ /\ pc = "idle"
       /\ \E flt \in Filters : StepRemoveFilter(flt)
    \/ /\ pc = "idle"
       /\ \E stream \in StepStreams, validate \in BOOLEAN,
             batch_size \in 1..MaxBatch : StepAdd(stream, validate, batch_size)
    \/ ScanOpen
    \/ \E raises \in BOOLEAN : ScanYield(raises)
    \/ ScanExhaust
    \/ ScanFail
    \/ \E fail \in BOOLEAN : RemoveExecute(fail)
    \/ ReadLine
    \/ EndOfStream
    \/ \E fail \in BOOLEAN : FlushExecute(fail)
    \/ \E fail \in BOOLEAN : BatchCommit(fail)
    \/ \E inConsumer \in BOOLEAN : Interrupt(inConsumer)
    \/ Close
    \/ GenFinalize
    \/ \E d \in Domains : OtherAdd(d)
    \/ Exit

SpecSteps == Init /\ [][NextSteps]_vars


(***************************************************************************)
(* add_domains_from_stream flush by flush, for batches of every length up  *)
(* to one row more than a page of execute_values: a run is the batches it  *)
(* flushes, each holding the domains accepted since the flush before.      *)
(***************************************************************************)
\* the most flushes of a run
MaxFlushes == 2

\* a batch that fills a page with one domain
PageOf(d) == [i \in 1..PAGE_SIZE |-> d]

\* the batches flushed: up to MaxBatch domains, a full page, and a full page
\* and one more row
Batches ==
    UNION {[1..n -> Domains] : n \in 1..MaxBatch}
        \cup {PageOf(d) : d \in Domains}
        \cup {Append(PageOf(d), e) : d, e \in Domains}

\* add_domains_from_stream is called; nothing has been read yet
PagedStart ==
    /\ pc = "idle"
    /\ pc' = "run"
    /\ cmd' = "add"
    /\ inp' = [longest |-> 0]
    /\ before' = table
    /\ res' = [table |-> table, batch |-> <<>>, total_domains |-> 0,
               new_domains |-> 0, invalid_domains |-> 0, line_num |-> 0,
               flushes |-> 0, failed |-> {}, exit |-> 0]
    /\ UNCHANGED <<table, unvalidated, candidate, verdict>>
    /\ UNCHANGED stepVars

\* the loop has accepted the domains of b, one per line, and flushes them
PagedFlush(b) ==
    /\ pc = "run"
    /\ res.flushes < MaxFlushes
    /\ \E r \in {Flush([res EXCEPT !.table = table,
                                   !.batch = b,
                                   !.total_domains = @ + Len(b),
                                   !.line_num = @ + Len(b)], b, {})} :
           /\ res' = r
           /\ table' = r.table
    /\ inp' = [longest |-> IF Len(b) > inp.longest THEN Len(b) ELSE inp.longest]
    /\ UNCHANGED <<pc, cmd, before, unvalidated, candidate, verdict>>
    /\ UNCHANGED stepVars

\* the stream has ended with no batch left: the counts are reported
PagedEnd ==
    /\ pc = "run"
    /\ pc' = "done"
    /\ UNCHANGED <<table, cmd, inp, res, before, unvalidated, candidate,
                   verdict>>
    /\ UNCHANGED stepVars

NextPaged ==
    \/ PagedStart
    \/ \E b \in Batches : PagedFlush(b)
    \/ PagedEnd
    \/ Exit

SpecPaged == Init /\ [][NextPaged]_vars


(***************************************************************************)
(* The validator on its own: is_valid_domain applied to a candidate        *)
(***************************************************************************)
\* the longest candidate drawn from CandChars
MaxCandLen == 4

CandChars == {"a", "A", "_", "*", "-", ".", " ", "\n"}

Ex_wild_example_com ==
    <<"*", ".", "e", "x", "a", "m", "p", "l", "e", ".", "c", "o", "m">>

Ex_svc_wild_domain_com ==
    <<"s", "v", "c", "-", "*", ".", "d", "o", "m", "a", "i", "n", ".", "c",
      "o", "m">>

Ex_collab_edge ==
    <<"_", "c", "o", "l", "l", "a", "b", "-", "e", "d", "g", "e", ".", "5",
      "g", ".", "d", "e", "l", "l", ".", "c", "o", "m">>

Ex_wildabc_com == <<"*", "a", "b", "c", ".", "c", "o", "m">>

Ex_svc_wild == <<"s", "v", "c", "-", "*">>

Ex_hyphen_dot ==
    <<"-", ".", "e", "x", "a", "m", "p", "l", "e", ".", "c", "o", "m">>

Ex_single_label == <<"l", "o", "c", "a", "l", "h", "o", "s", "t">>

RECURSIVE Repeat(_, _)
Repeat(c, n) == IF n = 0 THEN <<>> ELSE <<c>> \o Repeat(c, n - 1)

\* labels and final labels of 63 and 64 characters
Ex_label63 == Repeat("a", 63) \o <<".", "b">>

Ex_label64 == Repeat("a", 64) \o <<".", "b">>

Ex_tld63 == <<"a", ".">> \o Repeat("b", 63)

Ex_tld64 == <<"a", ".">> \o Repeat("b", 64)

\* four labels of 61 characters, each with its dot, are 248 characters
Ex_len248 ==
    LET l == Repeat("a", 61) \o <<".">> IN l \o l \o l \o l

Ex_len253 == Ex_len248 \o Repeat("b", 5)

Ex_len254 == Ex_len248 \o Repeat("b", 6)

Examples ==
    {Ex_wild_example_com, Ex_svc_wild_domain_com, Ex_collab_edge,
     Ex_wildabc_com, Ex_svc_wild, Ex_hyphen_dot, Ex_single_label,
     Ex_label63, Ex_label64, Ex_tld63, Ex_tld64, Ex_len253, Ex_len254}

Candidates ==
    Examples \cup UNION {[1..n -> CandChars] : n \in 0..MaxCandLen}

InitValidator ==
    /\ table = <<>>
    /\ pc = "idle"
    /\ cmd = "none"
    /\ inp = Nil
    /\ res = Nil
    /\ before = <<>>
    /\ unvalidated = FALSE
    /\ candidate \in Candidates
    /\ verdict = "none"
    /\ used = {}
    /\ closed = FALSE
    /\ gen = NoGen
    /\ txn = Nil
    /\ hist = NoHist

\* DomainValidator.is_valid_domain(candidate)
Validate ==
    /\ verdict = "none"
    /\ verdict' = IF IsValidDomain(candidate) THEN "valid" ELSE "invalid"
    /\ UNCHANGED <<table, pc, cmd, inp, res, before, unvalidated, candidate>>
    /\ UNCHANGED stepVars

NextValidator == Validate

SpecValidator == InitValidator /\ [][NextValidator]_vars


(***************************************************************************)
(* C3: the validator against the five rules                                *)
(***************************************************************************)
\* rule 5's label: 1-63 characters, letters, digits, "_", "*", and "-" except
\* first and last
RuleLabel(seg) ==
    /\ Len(seg) \in 1..63
    /\ \A i \in 1..Len(seg) : seg[i] \in Alnum \cup {"_", "*", "-"}
    /\ seg[1] # "-"
    /\ seg[Len(seg)] # "-"

\* rule 5's final label: 1-63 alphanumerics, "-" except first and last
RuleFinal(seg) ==
    /\ Len(seg) \in 1..63
    /\ \A i \in 1..Len(seg) : seg[i] \in Alnum \cup {"-"}
    /\ seg[1] # "-"
    /\ seg[Len(seg)] # "-"

\* one or more dot-terminated labels, then a final label: every segment
\* between two neighbouring dots (or an end of s) is a label, the last one a
\* final label, and there is at least one dot
RuleLabels(s) ==
    LET dots   == {i \in 1..Len(s) : s[i] = "."}
        bounds == dots \cup {0, Len(s) + 1}
        Nxt(a) == CHOOSE b \in bounds :
                      b > a /\ \A x \in bounds : x > a => b <= x
    IN  /\ dots # {}
        /\ \A a \in bounds \ {Len(s) + 1} :
               LET seg == SubSeq(s, a + 1, Nxt(a) - 1)
               IN  IF Nxt(a) = Len(s) + 1 THEN RuleFinal(seg) ELSE RuleLabel(seg)

Rule1(c) == c # <<>> /\ Len(c) <= 253

Rule2(c) == StartsWith(c, <<"*">>) => StartsWith(c, <<"*", ".">>)

Rule3(c) == ~EndsWith(c, <<"*">>) /\ c # <<"*">>

Rule4(c) ==
    /\ ~Contains(c, <<".", "-">>)
    /\ ~Contains(c, <<"-", ".">>)
    /\ ~StartsWith(c, <<".">>)
    /\ ~EndsWith(c, <<".">>)

Rule5(c) ==
    \/ RuleLabels(c)
    \/ StartsWith(c, <<"*", ".">>) /\ RuleLabels(SubSeq(c, 3, Len(c)))

FiveRules(c) == Rule1(c) /\ Rule2(c) /\ Rule3(c) /\ Rule4(c) /\ Rule5(c)

\* C3: is_valid_domain(c) returns true exactly when the five rules hold for c
C3_ValidIffFiveRules ==
    verdict # "none" => (verdict = "valid" <=> FiveRules(candidate))

\* C3, the part the code satisfies: the verdict is that of the five rules for
\* every candidate that does not end with a newline, and for one that does it
\* is the verdict of the five rules for the candidate without it
C3_ValidIffFiveRulesUpToNewline ==
    verdict # "none" =>
        IF candidate # <<>> /\ candidate[Len(candidate)] = "\n"
        THEN verdict = "valid" <=>
                 /\ FiveRules(SubSeq(candidate, 1, Len(candidate) - 1))
                 /\ Len(candidate) <= 253
        ELSE verdict = "valid" <=> FiveRules(candidate)

\* C3: the verdicts the claim lists
C3_Examples ==
    verdict # "none" =>
        /\ candidate \in {Ex_wild_example_com, Ex_svc_wild_domain_com,
                          Ex_collab_edge} => verdict = "valid"
        /\ candidate \in {Ex_wildabc_com, Ex_svc_wild, Ex_hyphen_dot,
                          Ex_single_label, Ex_len254} => verdict = "invalid"
        /\ candidate \in {Ex_label63, Ex_tld63, Ex_len253} => verdict = "valid"
        /\ candidate \in {Ex_label64, Ex_tld64} => verdict = "invalid"


(***************************************************************************)
(* What the claims about an add speak of, computed from its input          *)
(***************************************************************************)
Done(c) == pc = "done" /\ cmd = c

\* a line that is empty after trimming
Blank(line) == Strip(line) = <<>>

\* a line the validator rejects
Rejected(line) == ~Blank(line) /\ ~IsValidDomain(Strip(line))

\* the trimmed lines an add keeps, in input order
Accepted(stream, validate) ==
    LET kept == SelectSeq(stream,
                    LAMBDA l : ~Blank(l) /\ (validate => ~Rejected(l)))
    IN  [i \in 1..Len(kept) |-> Strip(kept[i])]

\* the k-th batch of an add: batch_size accepted domains, the last one fewer
Chunk(acc, batch_size, k) ==
    SubSeq(acc, (k - 1) * batch_size + 1,
           IF k * batch_size < Len(acc) THEN k * batch_size ELSE Len(acc))

NumChunks(acc, batch_size) == (Len(acc) + batch_size - 1) \div batch_size

NoDuplicates(q) == \A i, j \in 1..Len(q) : q[i] = q[j] => i = j

(***************************************************************************)
(* C1                                                                      *)
(***************************************************************************)
\* C1: the table never holds two equal rows, and an add whose accepted lines
\* all name one domain, on a store that holds nothing else, leaves count() = 1
C1_Unique ==
    /\ NoDuplicates(table)
    /\ Done("add") =>
          LET acc == Accepted(inp.stream, inp.validate)
          IN  (/\ acc # <<>>
               /\ \A i \in 1..Len(acc) : acc[i] = acc[1]
               /\ Rows(before) \subseteq {acc[1]}
               /\ res.failed = {})
              => CountDomains(table) = 1

\* C1 witness: a second run adds, twice more, the domain the first run stored
C1_Witness ==
    /\ Done("add")
    /\ LET acc == Accepted(inp.stream, inp.validate)
       IN  /\ Len(acc) >= 2
           /\ \A i \in 1..Len(acc) : acc[i] = acc[1]
           /\ before = <<acc[1]>>
           /\ res.failed = {}
           /\ inp.stream[1] # inp.stream[2]
    /\ CountDomains(table) = 1

(***************************************************************************)
(* C2                                                                      *)
(***************************************************************************)
\* C2: from an empty store, with validation on and no failed flush, an add of
\* N lines, K of them blank and M rejected, the others pairwise distinct
\* after trimming, leaves count() = N - K - M
C2_IngestCount ==
    Done("add") =>
        LET stream == inp.stream
            N == Len(stream)
            K == Cardinality({i \in 1..N : Blank(stream[i])})
            M == Cardinality({i \in 1..N : Rejected(stream[i])})
            distinct ==
                \A i, j \in 1..N :
                    (/\ i # j
                     /\ ~Blank(stream[i]) /\ ~Rejected(stream[i])
                     /\ ~Blank(stream[j]) /\ ~Rejected(stream[j]))
                    => Strip(stream[i]) # Strip(stream[j])
        IN  (before = <<>> /\ inp.validate /\ res.failed = {} /\ distinct)
            => CountDomains(table) = N - K - M

\* C2 witness: a blank line, a rejected line and one accepted line, which
\* does not fill a batch of two
C2_Witness ==
    /\ Done("add")
    /\ before = <<>>
    /\ inp.validate
    /\ res.failed = {}
    /\ inp.batch_size = 2
    /\ Len(inp.stream) = 3
    /\ \E i \in 1..3 : Blank(inp.stream[i])
    /\ \E i \in 1..3 : Rejected(inp.stream[i])
    /\ CountDomains(table) = 1

(***************************************************************************)
(* C4                                                                      *)
(***************************************************************************)
Occurrences(q, d) == Cardinality({i \in 1..Len(q) : q[i] = d})

SameMultiset(q, r) ==
    \A d \in Rows(q) \cup Rows(r) : Occurrences(q, d) = Occurrences(r, d)

NonDecreasing(q) == \A i \in 1..(Len(q) - 1) : ~StrLess(q[i + 1], q[i])

\* C4: with no filter and no store failure, what a sorted print yields is
\* non-decreasing and is, as a multiset, what the unsorted stream yields on
\* the same store content
C4_SortedSameMultiset ==
    (Done("print") /\ inp.sort /\ inp.flt = NoFilter /\ inp.failAt = NoFail)
    => /\ NonDecreasing(res.out)
       /\ SameMultiset(res.out,
                       IterDomains(table, NoMatch, NoRegex, FALSE, NoFail).out)

\* C4 witness: a sorted print of three domains stored in another order
C4_Witness ==
    /\ Done("print") /\ inp.sort /\ inp.flt = NoFilter /\ inp.failAt = NoFail
    /\ Len(res.out) = 3
    /\ res.out # table

(***************************************************************************)
(* C5                                                                      *)
(***************************************************************************)
\* C5: after a remove by filter that exits with 0, streaming with the same
\* filter yields nothing, sorted or not, and the domains the filter does not
\* keep are all still there, in their order
C5_RemoveByFilter ==
    (Done("remove-filter") /\ res.exit = 0)
    => /\ IterDomains(table, inp.flt.match, inp.flt.regex, FALSE, NoFail).out = <<>>
       /\ IterDomains(table, inp.flt.match, inp.flt.regex, TRUE, NoFail).out = <<>>
       /\ table = SelectSeq(before,
                      LAMBDA d : ~Keeps(inp.flt.match, inp.flt.regex, d))

\* C5 witness: a filter removed two domains and left a third
C5_Witness ==
    /\ Done("remove-filter") /\ res.exit = 0
    /\ Len(res.to_remove) = 2
    /\ Len(before) = 3
    /\ Len(table) = 1

(***************************************************************************)
(* C6                                                                      *)
(***************************************************************************)
\* C6: with no store failure, delete_all on a non-empty store returns true
\* and leaves count() = 0, and on an empty store returns false and leaves it
\* empty
C6_DeleteAll ==
    (Done("delete-all") /\ res.called /\ ~inp.fail)
    => /\ before # <<>> => res.ret = TRUE /\ CountDomains(table) = 0
       /\ before = <<>> => res.ret = FALSE /\ table = <<>>

\* C6 witness: delete_all has emptied a store of two domains
C6_Witness ==
    /\ Done("delete-all") /\ res.called /\ ~inp.fail
    /\ Len(before) = 2
    /\ res.ret = TRUE

(***************************************************************************)
(* C7                                                                      *)
(***************************************************************************)
\* the exported "domains" array as the lines of an input file
AsLines(domains) == [i \in 1..Len(domains) |-> domains[i] \o <<"\n">>]

\* the store after the exported array is ingested into an empty store
Reingest(domains, validate, batch_size) ==
    AddDomainsFromStream(<<>>, AsLines(domains), validate, batch_size, {}).table

\* a JSON export with no filter whose read of the store did not fail
ExportedAll ==
    /\ Done("export")
    /\ inp.format = "json"
    /\ inp.flt = NoFilter
    /\ inp.failAt = NoFail

\* C7 as claimed: whatever the store holds, ingesting the exported array into
\* an empty store gives back the set the store held, and domain_count is the
\* length of the array and the size of that set
C7_RoundTripAnyStore ==
    ExportedAll =>
        /\ res.domain_count = Len(res.domains)
        /\ res.domain_count = Cardinality(Rows(before))
        /\ \A validate \in BOOLEAN, batch_size \in 1..MaxBatch :
               Rows(Reingest(res.domains, validate, batch_size)) = Rows(before)

\* C7 as amended: ingesting the exported array with validation off gives back
\* the set the store held; with validation on it gives back the entries of
\* that set the validator accepts; domain_count is the length of the array
\* and the size of the set
C7_RoundTrip ==
    ExportedAll =>
        /\ res.domain_count = Len(res.domains)
        /\ res.domain_count = Cardinality(Rows(before))
        /\ \A batch_size \in 1..MaxBatch :
               /\ Rows(Reingest(res.domains, FALSE, batch_size)) = Rows(before)
               /\ Rows(Reingest(res.domains, TRUE, batch_size))
                      = {d \in Rows(before) : IsValidDomain(d)}

\* C7 witness: a sorted export of a store that holds a domain the validator
\* rejects beside two it accepts
C7_Witness ==
    /\ ExportedAll
    /\ inp.sort
    /\ Len(before) = 3
    /\ \E d \in Rows(before) : ~IsValidDomain(d)
    /\ res.domains # before

(***************************************************************************)
(* C8                                                                      *)
(***************************************************************************)
\* C8: as long as every add has validated, each stored string is accepted by
\* the validator, is not empty and has no whitespace at either end
C8_StoredAreValid ==
    ~unvalidated =>
        \A d \in Rows(table) :
            /\ IsValidDomain(d)
            /\ d # <<>>
            /\ d[1] \notin Whitespace
            /\ d[Len(d)] \notin Whitespace

\* C8 witness: a validating add has rejected a line and stored two others, one
\* of them trimmed
C8_Witness ==
    /\ ~unvalidated
    /\ Done("add")
    /\ res.invalid_domains = 1
    /\ Len(table) = 2
    /\ \E i \in 1..Len(inp.stream) :
           /\ inp.stream[i] = L_ab_pad
           /\ Strip(inp.stream[i]) \in Rows(table) \ Rows(before)

(***************************************************************************)
(* C9                                                                      *)
(***************************************************************************)
\* C9: when flushes of an add fail, every line is still read, the buffer ends
\* empty, every batch of the accepted domains is flushed, the store holds
\* what it held plus the batches whose flush did not fail, and the inserted
\* count is no more than what the store gained
C9_FlushFailureContinues ==
    (Done("add") /\ res.failed # {}) =>
        LET acc == Accepted(inp.stream, inp.validate)
            n   == NumChunks(acc, inp.batch_size)
        IN  /\ res.line_num = Len(inp.stream)
            /\ res.total_domains = Len(acc)
            /\ res.batch = <<>>
            /\ res.flushes = n
            /\ res.failed \subseteq 1..n
            /\ Rows(table) =
                   Rows(before) \cup
                   UNION {Rows(Chunk(acc, inp.batch_size, k)) :
                              k \in (1..n) \ res.failed}
            /\ SubSeq(table, 1, Len(before)) = before
            /\ res.new_domains <= Len(table) - Len(before)
            /\ res.exit = 0

\* C9 witness: the first flush failed, two later ones, the last of them the
\* final partial batch, stored their domains
C9_Witness ==
    /\ Done("add")
    /\ res.failed = {1}
    /\ res.flushes = 3
    /\ before = <<>>
    /\ Len(table) = 2
    /\ res.new_domains = 2

(***************************************************************************)
(* C10                                                                     *)
(***************************************************************************)
\* C10: a store failure while count, print or export reads the domains ends
\* the command with exit code 1
C10_ReadFailureExits1 ==
    (pc = "done" /\ cmd \in {"count", "print", "export"} /\ inp.failAt # NoFail)
    => res.exit = 1

\* C10, the part the code satisfies: the same for the reads that do not sort
C10_UnsortedReadFailureExits1 ==
    (/\ pc = "done"
     /\ cmd \in {"count", "print", "export"}
     /\ inp.failAt # NoFail
     /\ ~inp.sort)
    => res.exit = 1

(***************************************************************************)
(* C11                                                                     *)
(***************************************************************************)
\* a store-adapter operation is under way: the scan generator has started
\* and not finished, or a batch has executed its statement and not committed
OperationUnderWay == gen.state = "open" \/ txn # Nil

\* C11: at most one connection is checked out at a time, it is out only while
\* its operation is under way, the scan's is back once the generator has
\* finished, and none is out once the command has left its work, however the
\* scan ended: exhausted, failed, or abandoned by its consumer
C11_ConnectionsReleased ==
    /\ Cardinality(used) <= 1
    /\ used # {} => OperationUnderWay
    /\ gen.state = "closed" => "iter_domains" \notin used
    /\ pc \in {"close", "done"} => used = {}

\* C11, the part the code satisfies: the same for every command and exit path
\* but a text export whose consumer has abandoned the scan
C11_ReleasedUnlessExportAbandons ==
    /\ Cardinality(used) <= 1
    /\ (cmd = "export" /\ res.exit = 1) \/
       (/\ used # {} => OperationUnderWay
        /\ gen.state = "closed" => "iter_domains" \notin used
        /\ pc \in {"close", "done"} => used = {})
    /\ gen.state = "open" => used = {"iter_domains"}
    /\ txn # Nil => used = {IF cmd = "add" THEN "add_domains_batch"
                            ELSE "remove_domains_batch"}

\* a print stopped by a closed output has returned the scan's connection
C11_PrintAbandoned ==
    /\ pc = "close" /\ cmd = "print"
    /\ gen.state = "closed" /\ gen.pos < Len(gen.snap)
    /\ res.exit = 0
    /\ used = {}

(***************************************************************************)
(* C12                                                                     *)
(***************************************************************************)
\* a remove in one of its three forms has ended
RemoveDone ==
    pc = "done" /\ cmd \in {"remove-domain", "remove-file", "remove-filter"}

\* C12: a remove that ends with exit code 0 has removed at least one domain;
\* one that removed nothing ends with exit code 1
C12_NothingRemovedExits1 ==
    RemoveDone => (res.exit = 0 => Len(table) < Len(before))

\* C12, the part the code satisfies: remove -d ends with exit code 0 exactly
\* when it has removed the domain
C12_SingleDomainExits1 ==
    Done("remove-domain") => (res.exit = 0 <=> Len(table) < Len(before))

\* a remove -f none of whose domains is stored, and a remove by a filter that
\* matches nothing, have left a non-empty store as it was and ended with 0
C12_NothingRemovedExit0 ==
    /\ RemoveDone
    /\ cmd # "remove-domain"
    /\ before # <<>>
    /\ table = before
    /\ res.exit = 0
    /\ cmd = "remove-file" => inp.file # <<>> /\ inp.fails = {}

(***************************************************************************)
(* C13                                                                     *)
(***************************************************************************)
\* the domains of the batches that have been committed
CommittedRows ==
    UNION {Rows(hist.committed[k]) : k \in 1..Len(hist.committed)}

\* C13: at every step of an add or of a remove by filter the store is what
\* the batches committed so far, each applied as a whole, and the other
\* processes' inserts have made of the store the command started from: a
\* batch that failed at its statement or at its commit, or was interrupted
\* before its commit, has left nothing.  For an add this is the content
\* before the run plus exactly the domains of the committed batches.
C13_BatchAtomic ==
    cmd \in {"add", "remove-filter"} =>
        /\ table = hist.shadow
        /\ cmd = "add" =>
               Rows(table) = Rows(before) \cup hist.added \cup CommittedRows
        /\ cmd = "remove-filter" =>
               /\ Len(hist.committed) <= 1
               /\ hist.committed = <<>> =>
                      Rows(table) = Rows(before) \cup hist.added

\* C13 witness: an add has committed its first batch and was interrupted with
\* the second batch's INSERT executed and not committed
C13_Witness ==
    /\ pc = "done" /\ cmd = "add"
    /\ res.exit = 1
    /\ Len(hist.committed) = 1
    /\ hist.rolledBack = 1
    /\ hist.added = {}
    /\ Len(table) = Len(before) + 1
    /\ Strip(inp.stream[2]) \notin Rows(table)

(***************************************************************************)
(* C14                                                                     *)
(***************************************************************************)
\* C14: during and after a remove by filter, a domain another process added
\* after the scan had collected the candidates and before
\* remove_domains_batch ran is in the store, whether the filter matches it or
\* not, and every domain that was in the store and no longer is was yielded
\* by the scan
C14_ConcurrentAddSurvives ==
    cmd = "remove-filter" =>
        /\ hist.window \subseteq Rows(table)
        /\ (Rows(before) \cup hist.added) \ Rows(table)
               \subseteq (Rows(res.out) \cap Rows(gen.snap))

\* C14 witness: the remove has deleted what its scan saw and ended with exit
\* code 0, and a domain its filter matches, added in between, is still stored
C14_Witness ==
    /\ pc = "done" /\ cmd = "remove-filter"
    /\ res.exit = 0
    /\ res.removed >= 1
    /\ \E d \in hist.window :
           /\ Keeps(inp.flt.match, inp.flt.regex, d)
           /\ d \in Rows(table)
           /\ d \notin Rows(gen.snap)

(***************************************************************************)
(* C16                                                                     *)
(***************************************************************************)
\* C16: in a remove by filter, remove_domains_batch is called at most once;
\* as long as the scan has not finished it has not been called and no
\* transaction is open; when it has been called the scan was read to its end
\* without a failure and its connection is back in the pool; and when the scan
\* failed or yielded no candidate it is never called and the command has
\* changed nothing in the store
C16_TwoPhase ==
    cmd = "remove-filter" =>
        /\ hist.calls <= 1
        /\ gen.state # "closed" => hist.calls = 0 /\ txn = Nil
        /\ hist.calls = 1 =>
               /\ gen.state = "closed"
               /\ gen.pos = Len(gen.snap)
               /\ ~gen.raised
               /\ "iter_domains" \notin used
               /\ res.out # <<>>
        /\ (gen.raised \/ (gen.state = "closed" /\ res.out = <<>>)) =>
               /\ hist.calls = 0
               /\ Rows(table) = Rows(before) \cup hist.added

\* C16 witness: the scan was read to its end and gave two candidates, which
\* the one call of remove_domains_batch has deleted
C16_Witness ==
    /\ pc = "done" /\ cmd = "remove-filter"
    /\ hist.calls = 1
    /\ gen.state = "closed"
    /\ Len(res.out) = 2
    /\ res.removed = 2
    /\ Rows(res.out) \cap Rows(table) = {}

(***************************************************************************)
(* C15                                                                     *)
(***************************************************************************)
\* the duplicates add_domains_from_stream reports
DuplicateDomains == res.total_domains - res.new_domains

\* C15: when an add has ended with no failed flush, its 'new' count is the
\* number of domains the store has gained, and its duplicates are the
\* accepted domains less that number, whatever the lengths of its batches
C15_NewCountIsAdded ==
    (Done("add") /\ res.failed = {}) =>
        /\ res.new_domains = CountDomains(table) - CountDomains(before)
        /\ DuplicateDomains =
               res.total_domains - (CountDomains(table) - CountDomains(before))

\* C15, the part the code satisfies: the same for the runs none of whose
\* batches is longer than a page
C15_NewCountWithinOnePage ==
    (Done("add") /\ res.failed = {} /\ inp.longest <= PAGE_SIZE) =>
        /\ res.new_domains = CountDomains(table) - CountDomains(before)
        /\ DuplicateDomains =
               res.total_domains - (CountDomains(table) - CountDomains(before))

\* a batch of a page and one row has added two domains and reported one
C15_SecondPageOnly ==
    /\ Done("add")
    /\ res.flushes = 1
    /\ inp.longest = PAGE_SIZE + 1
    /\ CountDomains(table) - CountDomains(before) = 2
    /\ res.new_domains = 1

(***************************************************************************)
(* C17                                                                     *)
(***************************************************************************)
\* d satisfies the filter: it contains the substring, if one is set, and the
\* regex is found in it, if one is set
Satisfies(flt, d) ==
    /\ flt.match # NoMatch => Contains(d, flt.match)
    /\ flt.regex.set => RegexSearch(flt.regex, d)

\* C17: with no store failure, what a print has streamed, sorted or not, holds
\* no domain twice and is exactly the stored domains that satisfy its filter;
\* on the same store the sorted and the unsorted stream yield the same set;
\* the stream is no longer than the store and the store is as it was
C17_IterDomains ==
    (Done("print") /\ inp.failAt = NoFail) =>
        /\ NoDuplicates(res.out)
        /\ Rows(res.out) = {d \in Rows(before) : Satisfies(inp.flt, d)}
        /\ Rows(IterDomains(before, inp.flt.match, inp.flt.regex, TRUE,
                            NoFail).out)
               = Rows(IterDomains(before, inp.flt.match, inp.flt.regex, FALSE,
                                  NoFail).out)
        /\ Len(res.out) <= Len(before)
        /\ table = before

\* C17 witness: an unsorted print with a regex has streamed the one of three
\* stored domains in which the regex is found
C17_Witness ==
    /\ Done("print") /\ inp.failAt = NoFail
    /\ ~inp.sort
    /\ inp.flt.regex.set
    /\ Len(before) = 3
    /\ Len(res.out) = 1

=============================================================================
